---------------------------- MODULE Spec2Model ----------------------------
(***************************************************************************)
(* Verification model of the Versal pose-head inference layer:             *)
(*   - the three quantized head kernels (aie_overlay/Kernels),             *)
(*   - the saturation helper sat_q15 (pose_head_params.hpp),               *)
(*   - the PL memory/stream movers (Custom_Pl_Kernels),                    *)
(*   - the host program that loads the data and drives the graph (sw).     *)
(*                                                                         *)
(* The specifications share the module's variables; each one holds the     *)
(* variables of the other parts at their initial values:                   *)
(*   Spec       one head kernel fed by its feature window and weight GMIO  *)
(*   SpecStarve the same with a weight transfer that may end short         *)
(*   SpecPipe   one head kernel with its feature, weight and output        *)
(*              transfers running beside it over bounded streams           *)
(*   SpecTwice  one head kernel invoked several times in a row             *)
(*   SpecPar    the three head kernels running concurrently                *)
(*   SpecSat    sat_q15 applied to int32 inputs                            *)
(*   SpecMover  the movers called on a buffer and a stream                 *)
(*   SpecHost   host_overlay.cpp main, from the file loads to the saves    *)
(*                                                                         *)
(* TLC's integers are 32 bits wide, so every int32 operation of the code   *)
(* is written so that no intermediate value leaves that range: an          *)
(* overflowing sum is detected by comparison before it is formed, and the  *)
(* exact (unbounded) sums of the claims are kept as a pair (q, r) standing *)
(* for q * 2^16 + r.                                                       *)
(***************************************************************************)
EXTENDS Integers, Sequences, FiniteSets, TLC

\* ------------------------------------------------------------------------
\* Bounds of the model
\* ------------------------------------------------------------------------
MaxInCh == 2

MaxOutCh == 2

MaxPad == 1

MaxWeights == 6

StreamCap == 1

\* ------------------------------------------------------------------------
\* Integer widths
\* ------------------------------------------------------------------------
Q15_MAX == 32767

Q15_MIN == -32768

INT32_MAX == 2147483647

INT32_MIN == -2147483647 - 1

Two16 == 65536

\* output_gmio::create(name, 128, 1000): "depth=1000 is plenty for our bursts"
GMIO_DEPTH == 1000

\* static_cast<int16_t>(x): the low 16 bits of x, read as two's complement
Int16Of(x) == ((x + 32768) % Two16) - 32768

\* static_cast<int32_t>(v) of an int16 v: sign extension
Int32Of(v) == LET u == v % Two16 IN IF u >= 32768 THEN u - Two16 ELSE u

sat_q15_NoLowClamp(x) ==
    IF x > 32767 THEN 32767 ELSE Int16Of(x)

sat_q15(x) ==
    IF x > 32767 THEN 32767
    ELSE IF x < -32768 THEN -32768
    ELSE Int16Of(x)

\* ------------------------------------------------------------------------
\* Head kernels
\* ------------------------------------------------------------------------
Heads == {"pose3d", "world", "flag"}

\* Values the feature window and the weight stream carry in the general runs
Vals == {-32768, 1, 32767}

Shifts == {0, 15}

HeadCfg(in, out, pad, sh) ==
    [IN_CH |-> in, OUT_CH |-> out, OUT_CH_PAD |-> pad, SHIFT |-> sh]

BoundedCfgs ==
    { HeadCfg(in, out, out + p, sh) :
        in \in 0..MaxInCh, out \in 0..MaxOutCh, p \in 0..MaxPad, sh \in Shifts }

\* The spec's known-vector and saturating scenarios (IN_CH=2, OUT_CH=1,
\* OUT_CH_PAD=2, SHIFT=0), each with the values its vectors are made of
ScenarioCfg == HeadCfg(2, 1, 2, 0)

\* The spec's zero-width scenario (IN_CH=0, OUT_CH=3, OUT_CH_PAD=3), with the
\* shift off and with the heads' shift
ZeroWidthCfgs == {HeadCfg(0, 3, 3, 0), HeadCfg(0, 3, 3, 15)}

Universes ==
    { [vals |-> Vals, cfgs |-> {c \in BoundedCfgs :
                                   c.OUT_CH * (1 + c.IN_CH) <= MaxWeights}],
      [vals |-> {2, 3, 10, 20, 100}, cfgs |-> {ScenarioCfg}],
      [vals |-> {0, 2, 30000}, cfgs |-> {ScenarioCfg}],
      [vals |-> {-1, 1, 32767}, cfgs |-> ZeroWidthCfgs] }

VARIABLES
    run,         \* the heads whose kernels the graph runs
    vals,        \* the values the inputs are drawn from
    cfg,         \* cfg[h]: {IN_CH, OUT_CH, OUT_CH_PAD, SHIFT} of head h
    feat_win,    \* feat_win[h]: the input window of IN_CH samples
    w_stream,    \* w_stream[h]: weight values in flight to the kernel
    out_stream,  \* out_stream[h]: values the kernel has written
    feat_buf,    \* <head>_feat_buf: the static feature buffer
    pc,          \* pc[h]: idle, load, outer, mac, pad, done
    i,           \* load loop index
    oc,          \* output channel index
    ic,          \* input channel index
    acc,         \* int32 accumulator
    nfeat,       \* window reads done (the window's read position)
    wlog,        \* every value read from w_stream so far, in order
    wsent,       \* values the weight GMIO has pushed
    ovf          \* a signed overflow of acc has happened

kvars == <<run, vals, cfg, feat_win, w_stream, out_stream, feat_buf, pc, i,
           oc, ic, acc, nfeat, wlog, wsent, ovf>>

VARIABLES
    sx,          \* sat_q15's argument
    sy,          \* sat_q15's result
    sdone        \* sat_q15 has returned

svars == <<sx, sy, sdone>>

VARIABLES
    fsent,       \* fsent[h]: feature values the input GMIO has put in the window
    out_rd,      \* out_rd[h]: values the output GMIO has taken off out_stream
    wcap,        \* wcap[h]: capacity of the weight stream
    ocap,        \* ocap[h]: capacity of the output stream
    wtotal,      \* wtotal[h]: values the weight transfer supplies in all
    otake,       \* otake[h]: values the output transfer takes in all
    ninv,        \* ninv[h]: invocations of the kernel so far
    stale        \* stale[h]: <head>_feat_buf as the previous invocation left it

pvars == <<fsent, out_rd, wcap, ocap, wtotal, otake, ninv, stale>>

VARIABLES
    mkind,       \* the mover being called
    num_words,   \* its num_words argument (unsigned int)
    start_addr,  \* its start_addr argument (unsigned int, as a bit pattern)
    mem,         \* the buffer a memory-to-stream mover reads
    dst,         \* the buffer output_mover writes
    stream,      \* the hls::stream between them
    mi,          \* the loop index i
    mpc,         \* ready, READ_LOOP, WRITE_LOOP, returned, crashed
    ncall,       \* 1: the first call, 2: the round trip's output_mover call
    mem0,        \* mem at the call's entry
    dst0,        \* dst at the call's entry
    stream0,     \* stream at the call's entry
    oob          \* an index outside the buffer has been accessed

mvars == <<mkind, num_words, start_addr, mem, dst, stream, mi, mpc, ncall,
           mem0, dst0, stream0, oob>>

VARIABLES
    hfile,       \* hfile[f]: the size in bytes of data file f, -1: no such file
    hstep,       \* the statement of main that runs next
    hpc,         \* main, catch, exit
    bo_loaded,   \* the buffer objects load_bin has filled
    gmio_in,     \* gmio_in[<<h, role>>]: bytes of the started input transfer
    out_req,     \* out_req[h]: bytes of the started output transfer
    graph_state, \* init, running, done
    kdone,       \* kdone[h]: head h's kernel has completed its run
    out_chan,    \* out_chan[h]: values in head h's output channel
    out_bo,      \* out_bo[h]: values drained into head h's output buffer
    out_txt,     \* out_txt[h]: the lines of head h's output file
    saved,       \* heads whose output file has been written
    hrc,         \* main's return value, -1 while it runs
    herr         \* an [ERROR] line has been printed

hvars == <<hfile, hstep, hpc, bo_loaded, gmio_in, out_req, graph_state, kdone,
           out_chan, out_bo, out_txt, saved, hrc, herr>>

others_k == <<svars, mvars, hvars>>

others_s == <<kvars, pvars, mvars, hvars>>

others_m == <<kvars, pvars, svars, hvars>>

others_h == <<kvars, pvars, svars, mvars>>

vars == <<kvars, pvars, svars, mvars, hvars>>

Upd(f, h, v) == [f EXCEPT ![h] = v]

Zeros(n) == [k \in 1..n |-> 0]

\* acc += p in int32.  A sum inside the int32 range is that sum.  A sum
\* outside it is a signed overflow, undefined in C++: the build either wraps
\* (two's complement add) or clamps (a saturating accumulate).
AddOverflows(a, p) ==
    \/ p > 0 /\ a > INT32_MAX - p
    \/ p < 0 /\ a < INT32_MIN - p

Wrap32Add(a, p) ==
    IF p > 0 THEN ((a - INT32_MAX) - 1) + ((p - INT32_MAX) - 1)
             ELSE ((a + INT32_MAX) + 1) + ((p + INT32_MAX) + 1)

Sat32Add(a, p) == IF p > 0 THEN INT32_MAX ELSE INT32_MIN

AccAdd(a, p) ==
    IF AddOverflows(a, p) THEN {Wrap32Add(a, p), Sat32Add(a, p)}
    ELSE {a + p}

\* acc >>= s on a signed int32: arithmetic shift, floor(acc / 2^s)
ShiftRight_Trunc(a, s) == IF a >= 0 THEN a \div (2^s) ELSE -((-a) \div (2^s))

ShiftRight(a, s) == a \div (2^s)

KernelIdle ==
    /\ w_stream = [h \in Heads |-> <<>>]
    /\ out_stream = [h \in Heads |-> <<>>]
    /\ pc = [h \in Heads |-> "idle"]
    /\ i = [h \in Heads |-> 0]
    /\ oc = [h \in Heads |-> 0]
    /\ ic = [h \in Heads |-> 0]
    /\ acc = [h \in Heads |-> 0]
    /\ nfeat = [h \in Heads |-> 0]
    /\ wlog = [h \in Heads |-> <<>>]
    /\ wsent = [h \in Heads |-> 0]
    /\ ovf = [h \in Heads |-> FALSE]

\* The transfers around a kernel whose feature window is already in place and
\* whose output is left in the stream: the weight transfer carries the whole
\* weight table, OUT_CH * ROW_STRIDE values
WholeTransfers ==
    /\ fsent = [h \in Heads |-> cfg[h].IN_CH]
    /\ out_rd = [h \in Heads |-> 0]
    /\ wtotal = [h \in Heads |-> cfg[h].OUT_CH * (1 + cfg[h].IN_CH)]
    /\ otake = [h \in Heads |-> 0]
    /\ ninv = [h \in Heads |-> 0]
    /\ stale = [h \in Heads |-> <<>>]

SatIdle == sx = 0 /\ sy = 0 /\ sdone = FALSE

\* One head is set up: its configuration, its full feature window, its
\* zero-initialised static buffer.  The other heads stay unconfigured.
KernelInit ==
    /\ \E h \in Heads : run = {h}
    /\ \E u \in Universes :
         /\ vals = u.vals
         /\ \E c \in u.cfgs :
              /\ cfg = [h \in Heads |->
                          IF h \in run THEN c ELSE HeadCfg(0, 0, 0, 0)]
              /\ \E fw \in [1..c.IN_CH -> u.vals] :
                   feat_win = [h \in Heads |-> IF h \in run THEN fw ELSE <<>>]
    /\ feat_buf = [h \in Heads |-> Zeros(cfg[h].IN_CH)]
    /\ KernelIdle
    /\ WholeTransfers
    /\ wcap = [h \in Heads |-> StreamCap]
    /\ ocap = [h \in Heads |-> GMIO_DEPTH]

\* The kernels before any head is set up
KernelOff ==
    /\ run = {}
    /\ vals = {}
    /\ cfg = [h \in Heads |-> HeadCfg(0, 0, 0, 0)]
    /\ feat_win = [h \in Heads |-> <<>>]
    /\ feat_buf = [h \in Heads |-> <<>>]
    /\ KernelIdle
    /\ WholeTransfers
    /\ wcap = [h \in Heads |-> 0]
    /\ ocap = [h \in Heads |-> 0]

MoverIdle ==
    /\ mkind = "feat_mover"
    /\ num_words = 0
    /\ start_addr = 0
    /\ mem = <<>>
    /\ dst = <<>>
    /\ stream = <<>>
    /\ mi = 0
    /\ mpc = "ready"
    /\ ncall = 1
    /\ mem0 = <<>>
    /\ dst0 = <<>>
    /\ stream0 = <<>>
    /\ oob = FALSE

Roles == {"feat", "w"}

HostIdle ==
    /\ hfile = <<>>
    /\ hstep = 1
    /\ hpc = "main"
    /\ bo_loaded = {}
    /\ gmio_in = [g \in Heads \X Roles |-> 0]
    /\ out_req = [h \in Heads |-> 0]
    /\ graph_state = "init"
    /\ kdone = [h \in Heads |-> FALSE]
    /\ out_chan = [h \in Heads |-> <<>>]
    /\ out_bo = [h \in Heads |-> <<>>]
    /\ out_txt = [h \in Heads |-> <<>>]
    /\ saved = {}
    /\ hrc = -1
    /\ herr = FALSE

Init == KernelInit /\ SatIdle /\ MoverIdle /\ HostIdle

\* The graph fires a kernel it runs once the kernel's input window is full
Invoke(h) ==
    /\ h \in run
    /\ pc[h] = "idle"
    /\ fsent[h] = cfg[h].IN_CH
    /\ pc' = Upd(pc, h, "load")
    /\ i' = Upd(i, h, 0)
    /\ ninv' = Upd(ninv, h, ninv[h] + 1)
    /\ UNCHANGED <<fsent, out_rd, wcap, ocap, wtotal, otake, stale>>
    /\ UNCHANGED <<run, vals, cfg, feat_win, w_stream, out_stream, feat_buf,
                   oc, ic, acc, nfeat, wlog, wsent, ovf>>
    /\ UNCHANGED others_k

\* A load loop that fills pose3d_feat_buf whichever kernel runs it
LoadRead_SharedBuf(h) ==
    /\ pc[h] = "load"
    /\ i[h] < cfg[h].IN_CH
    /\ feat_buf' = Upd(feat_buf, "pose3d",
                       [feat_buf["pose3d"] EXCEPT
                            ![i[h] + 1] = feat_win[h][nfeat[h] + 1]])
    /\ nfeat' = Upd(nfeat, h, nfeat[h] + 1)
    /\ i' = Upd(i, h, i[h] + 1)
    /\ UNCHANGED <<run, vals, cfg, feat_win, w_stream, out_stream, pc, oc, ic,
                   acc, wlog, wsent, ovf>>
    /\ UNCHANGED pvars
    /\ UNCHANGED others_k

\* for (i = 0; i < IN_CH; ++i) feat_buf[i] = window_readincr(feat_win);
LoadRead(h) ==
    /\ pc[h] = "load"
    /\ i[h] < cfg[h].IN_CH
    /\ feat_buf' = Upd(feat_buf, h,
                       [feat_buf[h] EXCEPT ![i[h] + 1] = feat_win[h][nfeat[h] + 1]])
    /\ nfeat' = Upd(nfeat, h, nfeat[h] + 1)
    /\ i' = Upd(i, h, i[h] + 1)
    /\ UNCHANGED <<run, vals, cfg, feat_win, w_stream, out_stream, pc, oc, ic,
                   acc, wlog, wsent, ovf>>
    /\ UNCHANGED pvars
    /\ UNCHANGED others_k

\* A load loop that stops one entry short
LoadDone_Early(h) ==
    /\ pc[h] = "load"
    /\ i[h] >= cfg[h].IN_CH - 1
    /\ pc' = Upd(pc, h, "outer")
    /\ oc' = Upd(oc, h, 0)
    /\ UNCHANGED <<run, vals, cfg, feat_win, w_stream, out_stream, feat_buf,
                   i, ic, acc, nfeat, wlog, wsent, ovf>>
    /\ UNCHANGED pvars
    /\ UNCHANGED others_k

\* the load loop ends; for (oc = 0; ...
LoadDone(h) ==
    /\ pc[h] = "load"
    /\ i[h] >= cfg[h].IN_CH
    /\ pc' = Upd(pc, h, "outer")
    /\ oc' = Upd(oc, h, 0)
    /\ UNCHANGED <<run, vals, cfg, feat_win, w_stream, out_stream, feat_buf,
                   i, ic, acc, nfeat, wlog, wsent, ovf>>
    /\ UNCHANGED pvars
    /\ UNCHANGED others_k

\* An oc loop that starts its accumulator at 0 instead of the bias
ReadBias_ZeroAcc(h) ==
    /\ pc[h] = "outer"
    /\ oc[h] < cfg[h].OUT_CH
    /\ w_stream[h] # <<>>
    /\ acc' = Upd(acc, h, 0)
    /\ wlog' = Upd(wlog, h, Append(wlog[h], Head(w_stream[h])))
    /\ w_stream' = Upd(w_stream, h, Tail(w_stream[h]))
    /\ ic' = Upd(ic, h, 0)
    /\ pc' = Upd(pc, h, "mac")
    /\ UNCHANGED <<run, vals, cfg, feat_win, out_stream, feat_buf, i, oc,
                   nfeat, wsent, ovf>>
    /\ UNCHANGED pvars
    /\ UNCHANGED others_k

\* int32_t acc = static_cast<int32_t>(readincr(w_stream)); for (ic = 0; ...
ReadBias(h) ==
    /\ pc[h] = "outer"
    /\ oc[h] < cfg[h].OUT_CH
    /\ w_stream[h] # <<>>
    /\ acc' = Upd(acc, h, Int32Of(Head(w_stream[h])))
    /\ wlog' = Upd(wlog, h, Append(wlog[h], Head(w_stream[h])))
    /\ w_stream' = Upd(w_stream, h, Tail(w_stream[h]))
    /\ ic' = Upd(ic, h, 0)
    /\ pc' = Upd(pc, h, "mac")
    /\ UNCHANGED <<run, vals, cfg, feat_win, out_stream, feat_buf, i, oc,
                   nfeat, wsent, ovf>>
    /\ UNCHANGED pvars
    /\ UNCHANGED others_k

\* A MAC step whose weight read does not wait: it takes 0 from an empty stream
Mac_NonBlocking(h) ==
    /\ pc[h] = "mac"
    /\ ic[h] < cfg[h].IN_CH
    /\ LET f == feat_buf[h][ic[h] + 1]
           w == IF w_stream[h] = <<>> THEN 0 ELSE Head(w_stream[h])
           p == Int32Of(f) * Int32Of(w)
       IN /\ \E a \in AccAdd(acc[h], p) : acc' = Upd(acc, h, a)
          /\ ovf' = Upd(ovf, h, ovf[h] \/ AddOverflows(acc[h], p))
          /\ wlog' = Upd(wlog, h, Append(wlog[h], w))
    /\ w_stream' = Upd(w_stream, h,
                       IF w_stream[h] = <<>> THEN <<>> ELSE Tail(w_stream[h]))
    /\ ic' = Upd(ic, h, ic[h] + 1)
    /\ UNCHANGED <<run, vals, cfg, feat_win, out_stream, feat_buf, pc, i, oc,
                   nfeat, wsent>>
    /\ UNCHANGED pvars
    /\ UNCHANGED others_k

\* f = feat_buf[ic]; w = readincr(w_stream); acc += int32(f) * int32(w);
Mac(h) ==
    /\ pc[h] = "mac"
    /\ ic[h] < cfg[h].IN_CH
    /\ w_stream[h] # <<>>
    /\ LET f == feat_buf[h][ic[h] + 1]
           w == Head(w_stream[h])
           p == Int32Of(f) * Int32Of(w)
       IN /\ \E a \in AccAdd(acc[h], p) : acc' = Upd(acc, h, a)
          /\ ovf' = Upd(ovf, h, ovf[h] \/ AddOverflows(acc[h], p))
          /\ wlog' = Upd(wlog, h, Append(wlog[h], w))
    /\ w_stream' = Upd(w_stream, h, Tail(w_stream[h]))
    /\ ic' = Upd(ic, h, ic[h] + 1)
    /\ UNCHANGED <<run, vals, cfg, feat_win, out_stream, feat_buf, pc, i, oc,
                   nfeat, wsent>>
    /\ UNCHANGED pvars
    /\ UNCHANGED others_k

\* An inner loop that ends one weight short: the output is written when the
\* last weight of the row is still unread
Emit_BeforeLastWeight(h) ==
    /\ pc[h] = "mac"
    /\ ic[h] >= cfg[h].IN_CH - 1
    /\ Len(out_stream[h]) - out_rd[h] < ocap[h]
    /\ LET shifted == ShiftRight(acc[h], cfg[h].SHIFT)
       IN /\ acc' = Upd(acc, h, shifted)
          /\ out_stream' = Upd(out_stream, h,
                               Append(out_stream[h], sat_q15(shifted)))
    /\ oc' = Upd(oc, h, oc[h] + 1)
    /\ pc' = Upd(pc, h, "outer")
    /\ UNCHANGED <<run, vals, cfg, feat_win, w_stream, feat_buf, i, ic,
                   nfeat, wlog, wsent, ovf>>
    /\ UNCHANGED pvars
    /\ UNCHANGED others_k

\* the MAC loop ends; acc >>= SHIFT; writeincr(out_stream, sat_q15(acc)); ++oc
Emit(h) ==
    /\ pc[h] = "mac"
    /\ ic[h] >= cfg[h].IN_CH
    /\ Len(out_stream[h]) - out_rd[h] < ocap[h]
    /\ LET shifted == ShiftRight(acc[h], cfg[h].SHIFT)
       IN /\ acc' = Upd(acc, h, shifted)
          /\ out_stream' = Upd(out_stream, h,
                               Append(out_stream[h], sat_q15(shifted)))
    /\ oc' = Upd(oc, h, oc[h] + 1)
    /\ pc' = Upd(pc, h, "outer")
    /\ UNCHANGED <<run, vals, cfg, feat_win, w_stream, feat_buf, i, ic,
                   nfeat, wlog, wsent, ovf>>
    /\ UNCHANGED pvars
    /\ UNCHANGED others_k

\* the output loop ends; for (oc = OUT_CH; ...
OuterDone(h) ==
    /\ pc[h] = "outer"
    /\ oc[h] >= cfg[h].OUT_CH
    /\ pc' = Upd(pc, h, "pad")
    /\ oc' = Upd(oc, h, cfg[h].OUT_CH)
    /\ UNCHANGED <<run, vals, cfg, feat_win, w_stream, out_stream, feat_buf,
                   i, ic, acc, nfeat, wlog, wsent, ovf>>
    /\ UNCHANGED pvars
    /\ UNCHANGED others_k

PadWrite_ThroughPad(h) ==
    /\ pc[h] = "pad"
    /\ oc[h] <= cfg[h].OUT_CH_PAD
    /\ Len(out_stream[h]) - out_rd[h] < ocap[h]
    /\ out_stream' = Upd(out_stream, h, Append(out_stream[h], 0))
    /\ oc' = Upd(oc, h, oc[h] + 1)
    /\ UNCHANGED <<run, vals, cfg, feat_win, w_stream, feat_buf, pc, i, ic,
                   acc, nfeat, wlog, wsent, ovf>>
    /\ UNCHANGED pvars
    /\ UNCHANGED others_k

\* A padding loop that also clears the feature buffer
PadWrite_ClearsBuf(h) ==
    /\ pc[h] = "pad"
    /\ oc[h] < cfg[h].OUT_CH_PAD
    /\ Len(out_stream[h]) - out_rd[h] < ocap[h]
    /\ out_stream' = Upd(out_stream, h, Append(out_stream[h], 0))
    /\ feat_buf' = Upd(feat_buf, h, Zeros(cfg[h].IN_CH))
    /\ oc' = Upd(oc, h, oc[h] + 1)
    /\ UNCHANGED <<run, vals, cfg, feat_win, w_stream, pc, i, ic,
                   acc, nfeat, wlog, wsent, ovf>>
    /\ UNCHANGED pvars
    /\ UNCHANGED others_k

\* for (oc = OUT_CH; oc < OUT_CH_PAD; ++oc) writeincr(out_stream, 0);
PadWrite(h) ==
    /\ pc[h] = "pad"
    /\ oc[h] < cfg[h].OUT_CH_PAD
    /\ Len(out_stream[h]) - out_rd[h] < ocap[h]
    /\ out_stream' = Upd(out_stream, h, Append(out_stream[h], 0))
    /\ oc' = Upd(oc, h, oc[h] + 1)
    /\ UNCHANGED <<run, vals, cfg, feat_win, w_stream, feat_buf, pc, i, ic,
                   acc, nfeat, wlog, wsent, ovf>>
    /\ UNCHANGED pvars
    /\ UNCHANGED others_k

\* the padding loop ends; the kernel returns
PadDone(h) ==
    /\ pc[h] = "pad"
    /\ oc[h] >= cfg[h].OUT_CH_PAD
    /\ pc' = Upd(pc, h, "done")
    /\ UNCHANGED <<run, vals, cfg, feat_win, w_stream, out_stream, feat_buf,
                   i, oc, ic, acc, nfeat, wlog, wsent, ovf>>
    /\ UNCHANGED pvars
    /\ UNCHANGED others_k

ROW_STRIDE(h) == 1 + cfg[h].IN_CH

w_elems(h) == cfg[h].OUT_CH * ROW_STRIDE(h)

\* A weight transfer that pushes whether or not the stream has room
WeightGmio_NoBackpressure(h) ==
    /\ h \in run
    /\ wsent[h] < wtotal[h]
    /\ \E v \in vals : w_stream' = Upd(w_stream, h, Append(w_stream[h], v))
    /\ wsent' = Upd(wsent, h, wsent[h] + 1)
    /\ UNCHANGED <<run, vals, cfg, feat_win, out_stream, feat_buf, pc, i, oc,
                   ic, acc, nfeat, wlog, ovf>>
    /\ UNCHANGED pvars
    /\ UNCHANGED others_k

\* The weight GMIO transfer the host starts pushes its next value when the
\* stream has room
WeightGmio(h) ==
    /\ h \in run
    /\ wsent[h] < wtotal[h]
    /\ Len(w_stream[h]) < wcap[h]
    /\ \E v \in vals : w_stream' = Upd(w_stream, h, Append(w_stream[h], v))
    /\ wsent' = Upd(wsent, h, wsent[h] + 1)
    /\ UNCHANGED <<run, vals, cfg, feat_win, out_stream, feat_buf, pc, i, oc,
                   ic, acc, nfeat, wlog, ovf>>
    /\ UNCHANGED pvars
    /\ UNCHANGED others_k

Next ==
    \/ \E h \in Heads : Invoke(h)
    \/ \E h \in Heads : LoadRead(h)
    \/ \E h \in Heads : LoadDone(h)
    \/ \E h \in Heads : ReadBias(h)
    \/ \E h \in Heads : Mac(h)
    \/ \E h \in Heads : Emit(h)
    \/ \E h \in Heads : OuterDone(h)
    \/ \E h \in Heads : PadWrite(h)
    \/ \E h \in Heads : PadDone(h)
    \/ \E h \in Heads : WeightGmio(h)

Spec == Init /\ [][Next]_vars

\* ------------------------------------------------------------------------
\* A kernel whose weight transfer may be shorter than the weight table: the
\* transfer supplies wtotal <= OUT_CH * ROW_STRIDE values and ends.  A kernel
\* and a GMIO transfer are each scheduled as long as they can step.
\* ------------------------------------------------------------------------
StarveVals == {1, 2}

KernelStep(h) ==
    \/ Invoke(h) \/ LoadRead(h) \/ LoadDone(h) \/ ReadBias(h) \/ Mac(h)
    \/ Emit(h) \/ OuterDone(h) \/ PadWrite(h) \/ PadDone(h)

StarveInit ==
    /\ \E h \in Heads : run = {h}
    /\ vals = StarveVals
    /\ \E c \in {b \in BoundedCfgs :
                    /\ b.SHIFT = 0
                    /\ b.OUT_CH * (1 + b.IN_CH) >= 1
                    /\ b.OUT_CH * (1 + b.IN_CH) <= MaxWeights} :
         /\ cfg = [h \in Heads |-> IF h \in run THEN c ELSE HeadCfg(0, 0, 0, 0)]
         /\ \E fw \in [1..c.IN_CH -> StarveVals] :
              feat_win = [h \in Heads |-> IF h \in run THEN fw ELSE <<>>]
         /\ \E n \in 0..(c.OUT_CH * (1 + c.IN_CH)) :
              wtotal = [h \in Heads |-> IF h \in run THEN n ELSE 0]
    /\ feat_buf = [h \in Heads |-> Zeros(cfg[h].IN_CH)]
    /\ KernelIdle
    /\ fsent = [h \in Heads |-> cfg[h].IN_CH]
    /\ out_rd = [h \in Heads |-> 0]
    /\ otake = [h \in Heads |-> 0]
    /\ ninv = [h \in Heads |-> 0]
    /\ stale = [h \in Heads |-> <<>>]
    /\ wcap = [h \in Heads |-> StreamCap]
    /\ ocap = [h \in Heads |-> GMIO_DEPTH]

InitStarve == StarveInit /\ SatIdle /\ MoverIdle /\ HostIdle

SpecStarve ==
    /\ InitStarve
    /\ [][Next]_vars
    /\ \A h \in Heads : WF_vars(KernelStep(h)) /\ WF_vars(WeightGmio(h))

\* ------------------------------------------------------------------------
\* A head with all its transfers running beside the kernel: the feature
\* transfer fills the kernel's input window, the weight transfer feeds the
\* weight stream, the output transfer drains the output stream.  The streams
\* are bounded and blocking; each unit runs whenever it can step.
\* ------------------------------------------------------------------------
MaxCap == 2

PipeVals == {2, 30000}

PipeCfgs == {HeadCfg(2, 1, 2, 0), HeadCfg(1, 2, 2, 0), HeadCfg(0, 2, 3, 15)}

\* the feature GMIO puts the next sample into the window the kernel waits for
FeatGmio(h) ==
    /\ h \in run
    /\ pc[h] = "idle"
    /\ fsent[h] < cfg[h].IN_CH
    /\ fsent' = Upd(fsent, h, fsent[h] + 1)
    /\ UNCHANGED <<out_rd, wcap, ocap, wtotal, otake, ninv, stale>>
    /\ UNCHANGED kvars
    /\ UNCHANGED others_k

\* An output transfer that ends one value early
OutGmio_StopsShort(h) ==
    /\ h \in run
    /\ out_rd[h] < otake[h] - 1
    /\ out_rd[h] < Len(out_stream[h])
    /\ out_rd' = Upd(out_rd, h, out_rd[h] + 1)
    /\ UNCHANGED <<fsent, wcap, ocap, wtotal, otake, ninv, stale>>
    /\ UNCHANGED kvars
    /\ UNCHANGED others_k

\* the output GMIO takes the oldest value off the output stream
OutGmio(h) ==
    /\ h \in run
    /\ out_rd[h] < otake[h]
    /\ out_rd[h] < Len(out_stream[h])
    /\ out_rd' = Upd(out_rd, h, out_rd[h] + 1)
    /\ UNCHANGED <<fsent, wcap, ocap, wtotal, otake, ninv, stale>>
    /\ UNCHANGED kvars
    /\ UNCHANGED others_k

PipeInit ==
    /\ \E h \in Heads : run = {h}
    /\ vals = PipeVals
    /\ \E c \in PipeCfgs :
         /\ cfg = [h \in Heads |-> IF h \in run THEN c ELSE HeadCfg(0, 0, 0, 0)]
         /\ \E fw \in [1..c.IN_CH -> PipeVals] :
              feat_win = [h \in Heads |-> IF h \in run THEN fw ELSE <<>>]
         /\ \E n \in {c.OUT_CH, c.OUT_CH_PAD} :
              otake = [h \in Heads |-> IF h \in run THEN n ELSE 0]
    /\ \E wc \in 1..MaxCap, oc0 \in 1..MaxCap :
         /\ wcap = [h \in Heads |-> IF h \in run THEN wc ELSE 0]
         /\ ocap = [h \in Heads |-> IF h \in run THEN oc0 ELSE 0]
    /\ feat_buf = [h \in Heads |-> Zeros(cfg[h].IN_CH)]
    /\ KernelIdle
    /\ fsent = [h \in Heads |-> 0]
    /\ out_rd = [h \in Heads |-> 0]
    /\ wtotal = [h \in Heads |-> cfg[h].OUT_CH * (1 + cfg[h].IN_CH)]
    /\ ninv = [h \in Heads |-> 0]
    /\ stale = [h \in Heads |-> <<>>]

InitPipe == PipeInit /\ SatIdle /\ MoverIdle /\ HostIdle

NextPipe ==
    \/ \E h \in Heads : FeatGmio(h)
    \/ \E h \in Heads : WeightGmio(h)
    \/ \E h \in Heads : Invoke(h)
    \/ \E h \in Heads : LoadRead(h)
    \/ \E h \in Heads : LoadDone(h)
    \/ \E h \in Heads : ReadBias(h)
    \/ \E h \in Heads : Mac(h)
    \/ \E h \in Heads : Emit(h)
    \/ \E h \in Heads : OuterDone(h)
    \/ \E h \in Heads : PadWrite(h)
    \/ \E h \in Heads : PadDone(h)
    \/ \E h \in Heads : OutGmio(h)

SpecPipe ==
    /\ InitPipe
    /\ [][NextPipe]_vars
    /\ \A h \in Heads :
          /\ WF_vars(KernelStep(h))
          /\ WF_vars(FeatGmio(h))
          /\ WF_vars(WeightGmio(h))
          /\ WF_vars(OutGmio(h))

\* ------------------------------------------------------------------------
\* A kernel invoked again: the graph hands it the next window and the next
\* weight transfer; the static buffer <head>_feat_buf keeps what the
\* previous invocation stored in it
\* ------------------------------------------------------------------------
MaxRuns == 2

TwiceVals == {1, 2}

TwiceCfgs == {HeadCfg(2, 1, 1, 0), HeadCfg(1, 2, 3, 15)}

NextIteration(h) ==
    /\ h \in run
    /\ pc[h] = "done"
    /\ ninv[h] < MaxRuns
    /\ pc' = Upd(pc, h, "idle")
    /\ \E fw \in [1..cfg[h].IN_CH -> vals] : feat_win' = Upd(feat_win, h, fw)
    /\ nfeat' = Upd(nfeat, h, 0)
    /\ wlog' = Upd(wlog, h, <<>>)
    /\ wsent' = Upd(wsent, h, 0)
    /\ out_stream' = Upd(out_stream, h, <<>>)
    /\ ovf' = Upd(ovf, h, FALSE)
    /\ stale' = Upd(stale, h, feat_buf[h])
    /\ UNCHANGED <<run, vals, cfg, w_stream, feat_buf, i, oc, ic, acc>>
    /\ UNCHANGED <<fsent, out_rd, wcap, ocap, wtotal, otake, ninv>>
    /\ UNCHANGED others_k

TwiceInit ==
    /\ \E h \in Heads : run = {h}
    /\ vals = TwiceVals
    /\ \E c \in TwiceCfgs :
         /\ cfg = [h \in Heads |-> IF h \in run THEN c ELSE HeadCfg(0, 0, 0, 0)]
         /\ \E fw \in [1..c.IN_CH -> TwiceVals] :
              feat_win = [h \in Heads |-> IF h \in run THEN fw ELSE <<>>]
    /\ feat_buf = [h \in Heads |-> Zeros(cfg[h].IN_CH)]
    /\ KernelIdle
    /\ WholeTransfers
    /\ wcap = [h \in Heads |-> StreamCap]
    /\ ocap = [h \in Heads |-> GMIO_DEPTH]

InitTwice == TwiceInit /\ SatIdle /\ MoverIdle /\ HostIdle

NextTwice ==
    \/ \E h \in Heads : Invoke(h)
    \/ \E h \in Heads : LoadRead(h)
    \/ \E h \in Heads : LoadDone(h)
    \/ \E h \in Heads : ReadBias(h)
    \/ \E h \in Heads : Mac(h)
    \/ \E h \in Heads : Emit(h)
    \/ \E h \in Heads : OuterDone(h)
    \/ \E h \in Heads : PadWrite(h)
    \/ \E h \in Heads : PadDone(h)
    \/ \E h \in Heads : WeightGmio(h)
    \/ \E h \in Heads : NextIteration(h)

SpecTwice == InitTwice /\ [][NextTwice]_vars

\* ------------------------------------------------------------------------
\* The whole graph: the three kernels run concurrently, each on its own
\* window, weight stream, output stream and static buffer
\* ------------------------------------------------------------------------
\* the three heads' shapes, scaled down: one input width, with and without
\* padding
ParCfg ==
    [h \in Heads |->
        IF h = "pose3d" THEN HeadCfg(1, 1, 2, 0)
        ELSE IF h = "world" THEN HeadCfg(1, 1, 1, 0)
        ELSE HeadCfg(1, 1, 2, 0)]

ParFeatures == {1, 2}

ParWeights == {-32768, 3}

GraphInit ==
    /\ run = Heads
    /\ vals = ParWeights
    /\ cfg = ParCfg
    /\ \E f \in ParFeatures :
         feat_win = [h \in Heads |->
                        IF h = "pose3d" THEN <<1>>
                        ELSE IF h = "world" THEN <<2>> ELSE <<f>>]
    /\ feat_buf = [h \in Heads |-> Zeros(cfg[h].IN_CH)]
    /\ KernelIdle
    /\ WholeTransfers
    /\ wcap = [h \in Heads |-> StreamCap]
    /\ ocap = [h \in Heads |-> GMIO_DEPTH]

InitPar == GraphInit /\ SatIdle /\ MoverIdle /\ HostIdle

SpecPar == InitPar /\ [][Next]_vars

\* ------------------------------------------------------------------------
\* sat_q15 on its own
\* ------------------------------------------------------------------------
SatSpan == 20

\* int32 arguments: both ends of the int32 range and a span around 0 and
\* around each end of the int16 range
SatInputs ==
    {INT32_MIN, INT32_MIN + 1, INT32_MAX - 1, INT32_MAX}
        \cup ((-SatSpan)..SatSpan)
        \cup ((32767 - SatSpan)..(32767 + SatSpan))
        \cup ((-32768 - SatSpan)..(-32768 + SatSpan))

SatInit == sx \in SatInputs /\ sy = 0 /\ sdone = FALSE

SatCall ==
    /\ ~sdone
    /\ sy' = sat_q15(sx)
    /\ sdone' = TRUE
    /\ UNCHANGED sx
    /\ UNCHANGED others_s

InitSat == SatInit /\ KernelOff /\ MoverIdle /\ HostIdle

NextSat == SatCall

SpecSat == InitSat /\ [][NextSat]_vars

\* ------------------------------------------------------------------------
\* Movers
\* ------------------------------------------------------------------------
MemLen == 3

MaxPre == 1

MaxStream == 3

\* 128-bit words the buffers and streams carry
Words == {1, 2, 3}

\* what a read outside the buffer returns: a word that is none of the buffer's
Junk == {0}

M2S == {"feat_mover", "weight_mover"}

SeqsUpTo(S, n) == UNION {[1..k -> S] : k \in 0..n}

\* unsigned int values are kept as 32-bit patterns: 0xFFFFFFFF is -1
UINT_MAX == -1

\* (start_addr, num_words) of the calls: every start in or at the end of the
\* buffer with every length up to one past it, and the start 0xFFFFFFFF with
\* the lengths whose index start_addr + i passes 2^32
MoverArgs ==
    ((0..MemLen) \X (0..(MemLen + 1)))
        \cup ({UINT_MAX} \X (2..(MemLen + 1)))

\* a + b on unsigned int: modulo 2^32
U32Add(a, b) == IF AddOverflows(a, b) THEN Wrap32Add(a, b) ELSE a + b

\* a < b on unsigned int
ULt(a, b) == IF (a < 0) = (b < 0) THEN a < b ELSE b < 0

\* the index is one of the buffer's
InBuffer(idx, buf) == idx >= 0 /\ idx < Len(buf)

MoverInit ==
    /\ mkind \in M2S \cup {"output_mover"}
    /\ \E a \in MoverArgs : start_addr = a[1] /\ num_words = a[2]
    /\ IF mkind \in M2S
       THEN /\ mem \in [1..MemLen -> Words]
            /\ stream \in SeqsUpTo(Words, MaxPre)
       ELSE /\ mem = Zeros(MemLen)
            /\ stream \in SeqsUpTo(Words, MaxStream)
    /\ dst = Zeros(MemLen)
    /\ mi = 0
    /\ mpc = "ready"
    /\ ncall = 1
    /\ mem0 = mem
    /\ dst0 = dst
    /\ stream0 = stream
    /\ oob = FALSE

\* the mover is called: i = 0
MoverCall ==
    /\ mpc = "ready"
    /\ mpc' = IF mkind \in M2S THEN "READ_LOOP" ELSE "WRITE_LOOP"
    /\ mi' = 0
    /\ UNCHANGED <<mkind, num_words, start_addr, mem, dst, stream, ncall,
                   mem0, dst0, stream0, oob>>
    /\ UNCHANGED others_m

\* A READ_LOOP that clears each word it has read
MemToStreamStep_Consumes ==
    /\ mpc = "READ_LOOP"
    /\ ULt(mi, num_words)
    /\ LET idx == U32Add(start_addr, mi)
       IN IF InBuffer(idx, mem)
          THEN /\ stream' = Append(stream, mem[idx + 1])
               /\ mem' = [mem EXCEPT ![idx + 1] = 0]
               /\ mi' = U32Add(mi, 1)
               /\ UNCHANGED <<mpc, oob>>
          ELSE /\ oob' = TRUE
               /\ \E v \in Junk : stream' = Append(stream, v)
               /\ mi' = U32Add(mi, 1)
               /\ UNCHANGED <<mpc, mem>>
    /\ UNCHANGED <<mkind, num_words, start_addr, dst, ncall, mem0, dst0,
                   stream0>>
    /\ UNCHANGED others_m

\* A READ_LOOP that starts one word late: reads mem[start_addr + i + 1]
MemToStreamStep_SkipFirst ==
    /\ mpc = "READ_LOOP"
    /\ ULt(mi, num_words)
    /\ LET idx == U32Add(U32Add(start_addr, mi), 1)
       IN IF InBuffer(idx, mem)
          THEN /\ stream' = Append(stream, mem[idx + 1])
               /\ mi' = U32Add(mi, 1)
               /\ UNCHANGED <<mpc, oob>>
          ELSE /\ oob' = TRUE
               /\ \E v \in Junk : stream' = Append(stream, v)
               /\ mi' = U32Add(mi, 1)
               /\ UNCHANGED mpc
    /\ UNCHANGED <<mkind, num_words, start_addr, mem, dst, ncall, mem0, dst0,
                   stream0>>
    /\ UNCHANGED others_m

\* v = mem[start_addr + i]; outStream.write(v); ++i.  An index outside the
\* buffer is undefined: the read returns an unknown word, or the mover faults.
MemToStreamStep ==
    /\ mpc = "READ_LOOP"
    /\ ULt(mi, num_words)
    /\ LET idx == U32Add(start_addr, mi)
       IN IF InBuffer(idx, mem)
          THEN /\ stream' = Append(stream, mem[idx + 1])
               /\ mi' = U32Add(mi, 1)
               /\ UNCHANGED <<mpc, oob>>
          ELSE /\ oob' = TRUE
               /\ \/ /\ \E v \in Junk : stream' = Append(stream, v)
                     /\ mi' = U32Add(mi, 1)
                     /\ UNCHANGED mpc
                  \/ /\ mpc' = "crashed"
                     /\ UNCHANGED <<stream, mi>>
    /\ UNCHANGED <<mkind, num_words, start_addr, mem, dst, ncall, mem0, dst0,
                   stream0>>
    /\ UNCHANGED others_m

\* feat_mover's READ_LOOP body
feat_mover_step ==
    /\ mkind = "feat_mover"
    /\ MemToStreamStep

\* weight_mover's loop body: the memory-to-channel mover of the design, the
\* same shape as feat_mover
weight_mover_step ==
    /\ mkind = "weight_mover"
    /\ MemToStreamStep

\* i < num_words fails: the mover returns
MoverReturn ==
    /\ mpc \in {"READ_LOOP", "WRITE_LOOP"}
    /\ ~ULt(mi, num_words)
    /\ mpc' = "returned"
    /\ UNCHANGED <<mkind, num_words, start_addr, mem, dst, stream, mi, ncall,
                   mem0, dst0, stream0, oob>>
    /\ UNCHANGED others_m

\* A WRITE_LOOP whose store also lands on the word after the one it writes
output_mover_step_Spills ==
    /\ mkind = "output_mover"
    /\ mpc = "WRITE_LOOP"
    /\ ULt(mi, num_words)
    /\ stream # <<>>
    /\ LET idx == U32Add(start_addr, mi)
       IN IF InBuffer(idx, dst)
          THEN /\ dst' = [k \in 1..Len(dst) |->
                            IF k = idx + 1 THEN Head(stream)
                            ELSE IF k = idx + 2 THEN Head(stream)
                            ELSE dst[k]]
               /\ UNCHANGED oob
          ELSE /\ oob' = TRUE
               /\ UNCHANGED dst
    /\ stream' = Tail(stream)
    /\ mi' = U32Add(mi, 1)
    /\ UNCHANGED <<mkind, num_words, start_addr, mem, mpc, ncall, mem0, dst0,
                   stream0>>
    /\ UNCHANGED others_m

output_mover_step_Reversed ==
    /\ mkind = "output_mover"
    /\ mpc = "WRITE_LOOP"
    /\ ULt(mi, num_words)
    /\ stream # <<>>
    /\ LET idx == U32Add(start_addr, (num_words - 1) - mi)
       IN IF InBuffer(idx, dst)
          THEN /\ dst' = [dst EXCEPT ![idx + 1] = Head(stream)]
               /\ UNCHANGED oob
          ELSE /\ oob' = TRUE
               /\ UNCHANGED dst
    /\ stream' = Tail(stream)
    /\ mi' = U32Add(mi, 1)
    /\ UNCHANGED <<mkind, num_words, start_addr, mem, mpc, ncall, mem0, dst0,
                   stream0>>
    /\ UNCHANGED others_m

\* output_mover's WRITE_LOOP body: v = inStream.read(); mem[start_addr + i] = v;
\* the read blocks on an empty stream.  An index outside the buffer is
\* undefined: the write lands outside the buffer, or the mover faults.
output_mover_step ==
    /\ mkind = "output_mover"
    /\ mpc = "WRITE_LOOP"
    /\ ULt(mi, num_words)
    /\ stream # <<>>
    /\ LET idx == U32Add(start_addr, mi)
       IN IF InBuffer(idx, dst)
          THEN /\ dst' = [dst EXCEPT ![idx + 1] = Head(stream)]
               /\ stream' = Tail(stream)
               /\ mi' = U32Add(mi, 1)
               /\ UNCHANGED <<mpc, oob>>
          ELSE /\ oob' = TRUE
               /\ stream' = Tail(stream)
               /\ UNCHANGED dst
               /\ \/ mi' = U32Add(mi, 1) /\ UNCHANGED mpc
                  \/ mpc' = "crashed" /\ UNCHANGED mi
    /\ UNCHANGED <<mkind, num_words, start_addr, mem, ncall, mem0, dst0,
                   stream0>>
    /\ UNCHANGED others_m

\* After a memory-to-stream mover has returned, output_mover is called on
\* the same stream with the same (num_words, start_addr) and the buffer dst
RoundTripCall ==
    /\ mpc = "returned"
    /\ mkind \in M2S
    /\ ncall = 1
    /\ mkind' = "output_mover"
    /\ ncall' = 2
    /\ mpc' = "WRITE_LOOP"
    /\ mi' = 0
    /\ stream0' = stream
    /\ dst0' = dst
    /\ UNCHANGED <<num_words, start_addr, mem, dst, stream, mem0, oob>>
    /\ UNCHANGED others_m

InitMover == MoverInit /\ KernelOff /\ SatIdle /\ HostIdle

NextMover ==
    \/ MoverCall
    \/ feat_mover_step
    \/ weight_mover_step
    \/ output_mover_step
    \/ MoverReturn
    \/ RoundTripCall

SpecMover == InitMover /\ [][NextMover]_vars

\* ------------------------------------------------------------------------
\* Host program (host_overlay.cpp) and the named head configurations
\* ------------------------------------------------------------------------
POSE3D_IN_CH == 1152

WORLD_IN_CH == 1152

FLAG_IN_CH == 1152

POSE3D_OUT_CH == 195

WORLD_OUT_CH == 117

FLAG_OUT_CH == 1

POSE3D_OUT_CH_PAD == POSE3D_OUT_CH + 5

WORLD_OUT_CH_PAD == WORLD_OUT_CH + 3

FLAG_OUT_CH_PAD == FLAG_OUT_CH + 7

POSE3D_ROW_STRIDE == 1 + POSE3D_IN_CH

WORLD_ROW_STRIDE == 1 + WORLD_IN_CH

FLAG_ROW_STRIDE == 1 + FLAG_IN_CH

POSE3D_SHIFT == 15

WORLD_SHIFT == 15

FLAG_SHIFT == 15

SizeofInt16 == 2

\* Head configurations whose padded size is the unpadded one
NamedCfg_Unpadded(h) ==
    CASE h = "pose3d" ->
           HeadCfg(POSE3D_IN_CH, POSE3D_OUT_CH, POSE3D_OUT_CH, POSE3D_SHIFT)
      [] h = "world" ->
           HeadCfg(WORLD_IN_CH, WORLD_OUT_CH, WORLD_OUT_CH, WORLD_SHIFT)
      [] h = "flag" ->
           HeadCfg(FLAG_IN_CH, FLAG_OUT_CH, FLAG_OUT_CH, FLAG_SHIFT)

NamedCfg(h) ==
    CASE h = "pose3d" ->
           HeadCfg(POSE3D_IN_CH, POSE3D_OUT_CH, POSE3D_OUT_CH_PAD, POSE3D_SHIFT)
      [] h = "world" ->
           HeadCfg(WORLD_IN_CH, WORLD_OUT_CH, WORLD_OUT_CH_PAD, WORLD_SHIFT)
      [] h = "flag" ->
           HeadCfg(FLAG_IN_CH, FLAG_OUT_CH, FLAG_OUT_CH_PAD, FLAG_SHIFT)

\* Sizes per head, in elements
feat_elems(h) ==
    CASE h = "pose3d" -> POSE3D_IN_CH
      [] h = "world" -> WORLD_IN_CH
      [] h = "flag" -> FLAG_IN_CH

\* Weight sizes that leave the bias out of a row
host_w_elems_NoBias(h) ==
    CASE h = "pose3d" -> POSE3D_OUT_CH * POSE3D_IN_CH
      [] h = "world" -> WORLD_OUT_CH * WORLD_IN_CH
      [] h = "flag" -> FLAG_OUT_CH * FLAG_IN_CH

host_w_elems(h) ==
    CASE h = "pose3d" -> POSE3D_OUT_CH * POSE3D_ROW_STRIDE
      [] h = "world" -> WORLD_OUT_CH * WORLD_ROW_STRIDE
      [] h = "flag" -> FLAG_OUT_CH * FLAG_ROW_STRIDE

out_elems(h) ==
    CASE h = "pose3d" -> POSE3D_OUT_CH
      [] h = "world" -> WORLD_OUT_CH
      [] h = "flag" -> FLAG_OUT_CH

in_elems(h, role) == IF role = "feat" THEN feat_elems(h) ELSE host_w_elems(h)

\* The data files: one feature file, one weight file per head
Files == {"posehead_input_q15", "pose3d_fc_q15", "world_fc_q15", "flag_fc_q15"}

FileOf(h, role) ==
    IF role = "feat" THEN "posehead_input_q15"
    ELSE CASE h = "pose3d" -> "pose3d_fc_q15"
           [] h = "world" -> "world_fc_q15"
           [] h = "flag" -> "flag_fc_q15"

\* the bytes a file must hold: for the feature file IN_CH elements, for a
\* weight file the head's OUT_CH * ROW_STRIDE elements
FileNeed(f) ==
    CASE f = "posehead_input_q15" -> POSE3D_IN_CH * SizeofInt16
      [] f = "pose3d_fc_q15" -> host_w_elems("pose3d") * SizeofInt16
      [] f = "world_fc_q15" -> host_w_elems("world") * SizeofInt16
      [] f = "flag_fc_q15" -> host_w_elems("flag") * SizeofInt16

\* a missing file, an empty one, one a byte short, an exact one, a longer one
FileSizes(f) == {-1, 0, FileNeed(f) - 1, FileNeed(f), FileNeed(f) + SizeofInt16}

Op(o, h, r) == [op |-> o, head |-> h, role |-> r]

\* main's statements from the loads to the return, in program order
HostProgram ==
    << Op("load_bin", "pose3d", "feat"), Op("load_bin", "world", "feat"),
       Op("load_bin", "flag", "feat"),
       Op("load_bin", "pose3d", "w"), Op("load_bin", "world", "w"),
       Op("load_bin", "flag", "w"),
       Op("async_in", "pose3d", "feat"), Op("async_in", "world", "feat"),
       Op("async_in", "flag", "feat"),
       Op("async_in", "pose3d", "w"), Op("async_in", "world", "w"),
       Op("async_in", "flag", "w"),
       Op("async_out", "pose3d", "out"), Op("async_out", "world", "out"),
       Op("async_out", "flag", "out"),
       Op("run", "", ""), Op("wait", "", ""),
       Op("sync", "pose3d", "out"), Op("sync", "world", "out"),
       Op("sync", "flag", "out"),
       Op("save_txt", "pose3d", "out"), Op("save_txt", "world", "out"),
       Op("save_txt", "flag", "out"),
       Op("return", "", "") >>

At(o) == hpc = "main" /\ HostProgram[hstep].op = o

Cur == HostProgram[hstep]

load_bin_NoSizeCheck(fsize, elems) ==
    IF fsize = -1 THEN "Failed to open binary file" ELSE "ok"

\* load_bin(path, buf, elems): what it throws, or ok
load_bin(fsize, elems) ==
    IF fsize = -1 THEN "Failed to open binary file"
    ELSE IF fsize < elems * SizeofInt16 THEN "File too small"
    ELSE "ok"

HostInit ==
    /\ hfile \in [Files -> UNION {FileSizes(f) : f \in Files}]
    /\ \A f \in Files : hfile[f] \in FileSizes(f)
    /\ hstep = 1
    /\ hpc = "main"
    /\ bo_loaded = {}
    /\ gmio_in = [g \in Heads \X Roles |-> 0]
    /\ out_req = [h \in Heads |-> 0]
    /\ graph_state = "init"
    /\ kdone = [h \in Heads |-> FALSE]
    /\ out_chan = [h \in Heads |-> <<>>]
    /\ out_bo = [h \in Heads |-> <<>>]
    /\ out_txt = [h \in Heads |-> <<>>]
    /\ saved = {}
    /\ hrc = -1
    /\ herr = FALSE

\* load_bin<int16_t>(file, bo, elems): fills the buffer object or throws
LoadBin ==
    /\ At("load_bin")
    /\ LET r == load_bin(hfile[FileOf(Cur.head, Cur.role)],
                         in_elems(Cur.head, Cur.role))
       IN IF r = "ok"
          THEN /\ bo_loaded' = bo_loaded \cup {<<Cur.head, Cur.role>>}
               /\ hstep' = hstep + 1
               /\ UNCHANGED hpc
          ELSE /\ hpc' = "catch"
               /\ UNCHANGED <<bo_loaded, hstep>>
    /\ UNCHANGED <<hfile, gmio_in, out_req, graph_state, kdone, out_chan,
                   out_bo, out_txt, saved, hrc, herr>>
    /\ UNCHANGED others_h

\* <bo>.async(gmio, XCL_BO_SYNC_BO_GMIO_TO_AIE, elems * sizeof(int16_t), 0)
AsyncIn ==
    /\ At("async_in")
    /\ gmio_in' = [gmio_in EXCEPT ![<<Cur.head, Cur.role>>] =
                       in_elems(Cur.head, Cur.role) * SizeofInt16]
    /\ hstep' = hstep + 1
    /\ UNCHANGED <<hfile, hpc, bo_loaded, out_req, graph_state, kdone,
                   out_chan, out_bo, out_txt, saved, hrc, herr>>
    /\ UNCHANGED others_h

\* <out_bo>.async(gmio, XCL_BO_SYNC_BO_AIE_TO_GMIO, out_elems * sizeof(int16_t), 0)
AsyncOut ==
    /\ At("async_out")
    /\ out_req' = [out_req EXCEPT ![Cur.head] = out_elems(Cur.head) * SizeofInt16]
    /\ hstep' = hstep + 1
    /\ UNCHANGED <<hfile, hpc, bo_loaded, gmio_in, graph_state, kdone,
                   out_chan, out_bo, out_txt, saved, hrc, herr>>
    /\ UNCHANGED others_h

\* graph.run(1)
GraphRun ==
    /\ At("run")
    /\ graph_state' = "running"
    /\ hstep' = hstep + 1
    /\ UNCHANGED <<hfile, hpc, bo_loaded, gmio_in, out_req, kdone, out_chan,
                   out_bo, out_txt, saved, hrc, herr>>
    /\ UNCHANGED others_h

\* What one run of head h's kernel reads: IN_CH window samples in the load
\* loop, and in the oc loop one bias and IN_CH weights per output channel
KernelReads(h, role) ==
    IF role = "feat" THEN NamedCfg(h).IN_CH
    ELSE NamedCfg(h).OUT_CH * (1 + NamedCfg(h).IN_CH)

\* What one run of head h's kernel writes to its output channel: OUT_CH
\* results, then OUT_CH_PAD - OUT_CH zeros
KernelOutput(h) ==
    [k \in 1..NamedCfg(h).OUT_CH_PAD |->
        IF k <= NamedCfg(h).OUT_CH THEN [kind |-> "result", oc |-> k - 1]
                                   ELSE [kind |-> "zero", oc |-> k - 1]]

\* One iteration of head h's kernel, once its IN_CH features and its
\* OUT_CH * (1 + IN_CH) weights are on their way
KernelRun(h) ==
    /\ graph_state = "running"
    /\ ~kdone[h]
    /\ gmio_in[<<h, "feat">>] >= NamedCfg(h).IN_CH * SizeofInt16
    /\ gmio_in[<<h, "w">>] >=
           NamedCfg(h).OUT_CH * (1 + NamedCfg(h).IN_CH) * SizeofInt16
    /\ out_chan' = [out_chan EXCEPT ![h] = out_chan[h] \o KernelOutput(h)]
    /\ kdone' = [kdone EXCEPT ![h] = TRUE]
    /\ UNCHANGED <<hfile, hstep, hpc, bo_loaded, gmio_in, out_req,
                   graph_state, out_bo, out_txt, saved, hrc, herr>>
    /\ UNCHANGED others_h

\* The started output transfer moves what the channel holds into the output
\* buffer, up to the bytes it was started with
GmioDrain(h) ==
    /\ out_chan[h] # <<>>
    /\ Len(out_bo[h]) * SizeofInt16 < out_req[h]
    /\ LET room == (out_req[h] \div SizeofInt16) - Len(out_bo[h])
           n == IF Len(out_chan[h]) < room THEN Len(out_chan[h]) ELSE room
       IN /\ out_bo' = [out_bo EXCEPT ![h] = out_bo[h] \o SubSeq(out_chan[h], 1, n)]
          /\ out_chan' = [out_chan EXCEPT ![h] =
                              SubSeq(out_chan[h], n + 1, Len(out_chan[h]))]
    /\ UNCHANGED <<hfile, hstep, hpc, bo_loaded, gmio_in, out_req,
                   graph_state, kdone, out_txt, saved, hrc, herr>>
    /\ UNCHANGED others_h

\* graph.wait() returns when every kernel has completed its iteration
GraphWait ==
    /\ At("wait")
    /\ \A h \in Heads : kdone[h]
    /\ graph_state' = "done"
    /\ hstep' = hstep + 1
    /\ UNCHANGED <<hfile, hpc, bo_loaded, gmio_in, out_req, kdone, out_chan,
                   out_bo, out_txt, saved, hrc, herr>>
    /\ UNCHANGED others_h

\* <out_bo>.sync(gmio, XCL_BO_SYNC_BO_FROM_DEVICE): the transfer is complete
SyncOut ==
    /\ At("sync")
    /\ Len(out_bo[Cur.head]) * SizeofInt16 = out_req[Cur.head]
    /\ hstep' = hstep + 1
    /\ UNCHANGED <<hfile, hpc, bo_loaded, gmio_in, out_req, graph_state,
                   kdone, out_chan, out_bo, out_txt, saved, hrc, herr>>
    /\ UNCHANGED others_h

\* save_txt<int16_t>(file, out, out_elems): one line per buf[i], i < elems
SaveTxt ==
    /\ At("save_txt")
    /\ out_txt' = [out_txt EXCEPT ![Cur.head] =
                       [k \in 1..out_elems(Cur.head) |-> out_bo[Cur.head][k]]]
    /\ saved' = saved \cup {Cur.head}
    /\ hstep' = hstep + 1
    /\ UNCHANGED <<hfile, hpc, bo_loaded, gmio_in, out_req, graph_state,
                   kdone, out_chan, out_bo, hrc, herr>>
    /\ UNCHANGED others_h

\* return 0
HostReturn ==
    /\ At("return")
    /\ hrc' = 0
    /\ hpc' = "exit"
    /\ UNCHANGED <<hfile, hstep, bo_loaded, gmio_in, out_req, graph_state,
                   kdone, out_chan, out_bo, out_txt, saved, herr>>
    /\ UNCHANGED others_h

\* catch (const std::exception &e) { std::cerr << "[ERROR] " ...; return 1; }
HostCatch ==
    /\ hpc = "catch"
    /\ herr' = TRUE
    /\ hrc' = 1
    /\ hpc' = "exit"
    /\ UNCHANGED <<hfile, hstep, bo_loaded, gmio_in, out_req, graph_state,
                   kdone, out_chan, out_bo, out_txt, saved>>
    /\ UNCHANGED others_h

InitHost == HostInit /\ KernelOff /\ SatIdle /\ MoverIdle

NextHost ==
    \/ LoadBin
    \/ AsyncIn
    \/ AsyncOut
    \/ GraphRun
    \/ \E h \in Heads : KernelRun(h)
    \/ \E h \in Heads : GmioDrain(h)
    \/ GraphWait
    \/ SyncOut
    \/ SaveTxt
    \/ HostReturn
    \/ HostCatch

SpecHost == InitHost /\ [][NextHost]_vars

\* ------------------------------------------------------------------------
\* Reference arithmetic of the claims: exact integers as q * 2^16 + r
\* ------------------------------------------------------------------------
QR(a) == [q |-> a \div Two16, r |-> a % Two16]

QRAdd(e, p) ==
    LET s == e.r + (p % Two16)
    IN [q |-> e.q + (p \div Two16) + (s \div Two16), r |-> s % Two16]

Fits32(e) == e.q >= -32768 /\ e.q <= 32767

QRVal(e) == e.q * Two16 + e.r

\* bias + sum of feature[ic] * w[ic] over the first n input channels, exactly;
\* row = <<bias, w[0], ..., w[IN_CH-1]>> (or a prefix of it)
RECURSIVE ExactMac(_, _, _)
ExactMac(feat, row, n) ==
    IF n = 0 THEN QR(row[1])
    ELSE QRAdd(ExactMac(feat, row, n - 1), feat[n] * row[n + 1])

\* the oc-th row (oc from 0) of the values read from the weight channel
WeightRow(h, k) ==
    SubSeq(wlog[h], k * (1 + cfg[h].IN_CH) + 1, (k + 1) * (1 + cfg[h].IN_CH))

\* the part of the current row read so far
RowSoFar(h) ==
    SubSeq(wlog[h], oc[h] * (1 + cfg[h].IN_CH) + 1, Len(wlog[h]))

\* every partial sum of the row fits the int32 accumulator
RowFits(feat, row, n) == \A m \in 0..n : Fits32(ExactMac(feat, row, m))

Clamp16(x) == IF x > Q15_MAX THEN Q15_MAX ELSE IF x < Q15_MIN THEN Q15_MIN ELSE x

RefOutput(feat, row, n, sh) == Clamp16(QRVal(ExactMac(feat, row, n)) \div (2^sh))

\* ------------------------------------------------------------------------
\* C1: a complete run of a head kernel has written exactly OUT_CH_PAD values
\* to its output channel, the last OUT_CH_PAD - OUT_CH of them zeros, and has
\* read exactly OUT_CH * (1 + IN_CH) values from its weight channel, whatever
\* OUT_CH_PAD is.
\* ------------------------------------------------------------------------
C1_PaddedOutputAndWeightCount ==
    \A h \in Heads :
        pc[h] = "done" =>
            /\ Len(out_stream[h]) = cfg[h].OUT_CH_PAD
            /\ \A k \in (cfg[h].OUT_CH + 1)..cfg[h].OUT_CH_PAD :
                   out_stream[h][k] = 0
            /\ Len(wlog[h]) = cfg[h].OUT_CH * (1 + cfg[h].IN_CH)

C1_Witness ==
    \E h \in Heads :
        /\ pc[h] = "done"
        /\ cfg[h].IN_CH = 2 /\ cfg[h].OUT_CH = 2 /\ cfg[h].OUT_CH_PAD = 3
        /\ Len(out_stream[h]) = 3
        /\ out_stream[h][1] # 0

\* ------------------------------------------------------------------------
\* C2: for every oc < OUT_CH the oc-th value written is
\* saturate_q15(floor((bias_oc + sum_ic feature[ic] * w[oc][ic]) / 2^SHIFT)),
\* the row taken from the weight channel in row-major order, whenever the
\* exact running sum of the row fits the int32 accumulator; features [10,20]
\* with row [100,2,3] and SHIFT 0 give 180, features [2,2] with row
\* [0,30000,30000] give 32767.
\* ------------------------------------------------------------------------
C2_OutputIsShiftedSaturatedSum ==
    \A h \in Heads :
        \A k \in 1..Len(out_stream[h]) :
            k <= cfg[h].OUT_CH =>
                LET row == WeightRow(h, k - 1)
                    n == cfg[h].IN_CH
                IN /\ RowFits(feat_win[h], row, n) =>
                          out_stream[h][k] =
                              RefOutput(feat_win[h], row, n, cfg[h].SHIFT)
                   /\ (feat_win[h] = <<10, 20>> /\ row = <<100, 2, 3>>
                          /\ cfg[h].SHIFT = 0) => out_stream[h][k] = 180
                   /\ (feat_win[h] = <<2, 2>> /\ row = <<0, 30000, 30000>>
                          /\ cfg[h].SHIFT = 0) => out_stream[h][k] = 32767

\* a negative sum that the shift rounds down: -32768 + 1*1 = -32767 >> 15 = -1
C2_Witness ==
    \E h \in Heads :
        /\ pc[h] = "done"
        /\ cfg[h].SHIFT = 15 /\ cfg[h].IN_CH = 1 /\ cfg[h].OUT_CH = 1
        /\ feat_win[h] = <<1>>
        /\ wlog[h] = <<-32768, 1>>
        /\ out_stream[h][1] = -1

\* ------------------------------------------------------------------------
\* C3: after every multiply-accumulate step the accumulator equals the exact
\* mathematical sum bias + sum feature[ic] * w[ic]: it never wraps or
\* otherwise departs from it at the accumulator's width.
\* ------------------------------------------------------------------------
C3_AccumulatorIsExactSum ==
    \A h \in Heads :
        pc[h] = "mac" =>
            QR(acc[h]) = ExactMac(feat_buf[h], RowSoFar(h), ic[h])

\* ------------------------------------------------------------------------
\* C4: sat_q15 is total on int32 and returns 32767 above 32767, -32768 below
\* -32768 and its argument unchanged in between; sat_q15(32767) = 32767,
\* sat_q15(32768) = 32767, sat_q15(-32768) = -32768, sat_q15(-32769) = -32768;
\* the result always lies in [-32768, 32767].
\* ------------------------------------------------------------------------
C4_SatQ15Clamps ==
    sdone =>
        /\ sx > 32767 => sy = 32767
        /\ sx < -32768 => sy = -32768
        /\ (sx >= -32768 /\ sx <= 32767) => sy = sx
        /\ sy >= -32768 /\ sy <= 32767
        /\ sx = 32767 => sy = 32767
        /\ sx = 32768 => sy = 32767
        /\ sx = -32768 => sy = -32768
        /\ sx = -32769 => sy = -32768

C4_Witness == sdone /\ sx = -32769 /\ sy = -32768

\* ------------------------------------------------------------------------
\* Movers: the call's range lies inside the buffer
\* ------------------------------------------------------------------------
InRange == start_addr >= 0 /\ start_addr + num_words <= MemLen

\* ------------------------------------------------------------------------
\* C5: for an in-bounds (start_addr, num_words) the memory-to-stream mover
\* appends exactly mem[start_addr], ..., mem[start_addr + num_words - 1], in
\* ascending index order, after what the stream already held: after i
\* iterations the first i of them, after the return all of them.
\* ------------------------------------------------------------------------
C5_MoverAppendsSliceInOrder ==
    (ncall = 1 /\ mkind \in M2S /\ InRange) =>
        /\ mpc = "READ_LOOP" =>
               stream = stream0 \o SubSeq(mem0, start_addr + 1, start_addr + mi)
        /\ mpc = "returned" =>
               stream = stream0 \o
                   SubSeq(mem0, start_addr + 1, start_addr + num_words)

C5_Witness ==
    /\ mkind = "feat_mover" /\ ncall = 1 /\ mpc = "returned"
    /\ start_addr = 1 /\ num_words = 2
    /\ mem0 = <<1, 3, 2>>
    /\ stream0 = <<2>>
    /\ stream = <<2, 3, 2>>

\* ------------------------------------------------------------------------
\* C6: for a stream holding at least num_words words and an in-bounds
\* (start_addr, num_words), output_mover removes exactly the first num_words
\* words, in FIFO order, and stores the i-th removed word at
\* mem[start_addr + i].
\* ------------------------------------------------------------------------
C6_OutputMoverStoresFifoOrder ==
    (mkind = "output_mover" /\ mpc = "returned" /\ InRange
        /\ Len(stream0) >= num_words) =>
        /\ \A k \in 0..(num_words - 1) : dst[start_addr + k + 1] = stream0[k + 1]
        /\ stream = SubSeq(stream0, num_words + 1, Len(stream0))

C6_Witness ==
    /\ mkind = "output_mover" /\ ncall = 1 /\ mpc = "returned"
    /\ start_addr = 1 /\ num_words = 2
    /\ stream0 = <<3, 1, 2>>
    /\ dst = <<0, 3, 1>>
    /\ stream = <<2>>

\* ------------------------------------------------------------------------
\* C7: round trip: a memory-to-stream mover run into an empty stream and then
\* output_mover with the same in-bounds (start_addr, num_words) leave
\* destination[start_addr .. start_addr + num_words) equal to
\* source[start_addr .. start_addr + num_words), element by element, and the
\* stream empty.
\* ------------------------------------------------------------------------
C7_RoundTripReproducesSlice ==
    (ncall = 2 /\ mpc = "returned" /\ InRange /\ Len(stream0) = num_words) =>
        /\ \A k \in 1..num_words : dst[start_addr + k] = mem[start_addr + k]
        /\ stream = <<>>

C7_Witness ==
    /\ ncall = 2 /\ mpc = "returned"
    /\ start_addr = 1 /\ num_words = 2
    /\ mem = <<1, 3, 2>>
    /\ dst = <<0, 3, 2>>
    /\ stream = <<>>

\* ------------------------------------------------------------------------
\* C9: a mover call whose start_addr + num_words exceeds the buffer length
\* is reported as a bounds error: no index outside the buffer is read or
\* written, the index is not wrapped modulo 2^32 into the buffer, and neither
\* the stream nor the output buffer is changed by the failed call.
\* ------------------------------------------------------------------------
\* the movers return void and have no error path
BoundsErrorReported == FALSE

C9_OutOfRangeCallIsRejected ==
    (~InRange /\ mpc # "ready") =>
        /\ ~oob
        /\ stream = stream0
        /\ dst = dst0
        /\ mpc = "returned" => BoundsErrorReported

\* ------------------------------------------------------------------------
\* C8: after a completed inference cycle the output file of each head holds
\* exactly OUT_CH_PAD entries in index order (200 pose, 120 world, 8 flag):
\* the OUT_CH results followed by the OUT_CH_PAD - OUT_CH padding zeros, so
\* that every value the kernel wrote has been drained and persisted.
\* ------------------------------------------------------------------------
C8_ArtifactHoldsPaddedOutput ==
    (hpc = "exit" /\ hrc = 0) =>
        \A h \in Heads :
            /\ h \in saved
            /\ Len(out_txt[h]) = NamedCfg(h).OUT_CH_PAD
            /\ out_txt[h] = KernelOutput(h)
            /\ out_chan[h] = <<>>
            /\ Len(out_txt["pose3d"]) = 200
            /\ Len(out_txt["world"]) = 120
            /\ Len(out_txt["flag"]) = 8

\* ------------------------------------------------------------------------
\* C10: if the feature file or one of the three weight files is missing or
\* shorter than its configured element count, the host never starts a GMIO
\* transfer, never runs the graph and never writes an output file: it does
\* not get past the loads, and when it exits it has reported an error and
\* returns failure.
\* ------------------------------------------------------------------------
BadInput == \E f \in Files : hfile[f] < FileNeed(f)

C10_BadInputStopsBeforeTransfers ==
    BadInput =>
        /\ \A g \in Heads \X Roles : gmio_in[g] = 0
        /\ \A h \in Heads : out_req[h] = 0 /\ out_txt[h] = <<>> /\ ~kdone[h]
        /\ graph_state = "init"
        /\ saved = {}
        /\ hstep <= 6
        /\ hpc = "exit" => (hrc = 1 /\ herr)

\* the last of the six loads fails on a file one byte short
C10_Witness ==
    /\ hpc = "exit" /\ hrc = 1 /\ herr
    /\ hfile["flag_fc_q15"] = FileNeed("flag_fc_q15") - 1
    /\ \A f \in Files \ {"flag_fc_q15"} : hfile[f] = FileNeed(f)
    /\ Cardinality(bo_loaded) = 5
    /\ \A g \in Heads \X Roles : gmio_in[g] = 0

\* ------------------------------------------------------------------------
\* What a head writes when its kernel runs alone on its window and on the
\* weights w: the OUT_CH results of the rows of w, then zeros
\* ------------------------------------------------------------------------
AloneOutput(h, w, k) ==
    LET n == cfg[h].IN_CH
    IN IF k <= cfg[h].OUT_CH
       THEN RefOutput(feat_win[h], SubSeq(w, (k - 1) * (1 + n) + 1, k * (1 + n)),
                      n, cfg[h].SHIFT)
       ELSE 0

\* everything head h's kernel and its weight transfer read or write
HeadState(h) ==
    <<feat_win[h], feat_buf[h], w_stream[h], out_stream[h], pc[h], i[h], oc[h],
      ic[h], acc[h], nfeat[h], wlog[h], wsent[h]>>

\* ------------------------------------------------------------------------
\* C11: with the pose3d, world and flag kernels running concurrently, under
\* every interleaving each head's output sequence is the one it produces
\* alone on the same window and weights, and a step that changes one head's
\* buffer, streams or kernel state leaves every other head's unchanged.
\* ------------------------------------------------------------------------
C11_HeadsAreIndependent ==
    /\ [](\A h \in Heads :
            /\ Len(out_stream[h]) <= cfg[h].OUT_CH_PAD
            /\ pc[h] = "done" => Len(out_stream[h]) = cfg[h].OUT_CH_PAD
            /\ \A k \in 1..Len(out_stream[h]) :
                   out_stream[h][k] = AloneOutput(h, wlog[h], k))
    /\ [][\A h \in Heads : \A g \in Heads \ {h} :
            HeadState(h)' # HeadState(h) => HeadState(g)' = HeadState(g)]_vars

\* all three kernels have run to the end on different features and weights
C11_Witness ==
    /\ run = Heads
    /\ \A h \in Heads : pc[h] = "done"
    /\ feat_win["pose3d"] = <<1>> /\ feat_win["world"] = <<2>>
    /\ wlog["pose3d"] = <<3, 3>> /\ wlog["world"] = <<3, -32768>>
    /\ out_stream["pose3d"] = <<6, 0>>
    /\ out_stream["world"] = <<-32768>>
    /\ feat_win["flag"] = <<2>>
    /\ out_stream["flag"] = <<9, 0>>

\* ------------------------------------------------------------------------
\* Phases of a head kernel: LOAD, COMPUTE (the oc loop), PAD, DONE
\* ------------------------------------------------------------------------
PhaseRank(p) ==
    CASE p = "idle" -> 0
      [] p = "load" -> 1
      [] p \in {"outer", "mac"} -> 2
      [] p = "pad" -> 3
      [] p = "done" -> 4

\* ------------------------------------------------------------------------
\* C12: a head kernel goes through LOAD, COMPUTE for oc = 0..OUT_CH-1
\* ascending, PAD for oc = OUT_CH..OUT_CH_PAD-1 ascending and DONE in that one
\* order: no step returns to an earlier phase or a lower oc, the oc-th value
\* is written in COMPUTE when oc < OUT_CH and in PAD otherwise, nothing of
\* the kernel changes after DONE, and with OUT_CH = OUT_CH_PAD no padding
\* value is written.
\* ------------------------------------------------------------------------
C12_SinglePassPhases ==
    [][\A h \in Heads :
         /\ PhaseRank(pc'[h]) >= PhaseRank(pc[h])
         /\ (PhaseRank(pc[h]) >= 2 /\ PhaseRank(pc'[h]) <= 3) => oc'[h] >= oc[h]
         /\ out_stream'[h] # out_stream[h] =>
                /\ Len(out_stream'[h]) = Len(out_stream[h]) + 1
                /\ SubSeq(out_stream'[h], 1, Len(out_stream[h])) = out_stream[h]
                /\ Len(out_stream[h]) = oc[h]
                /\ oc'[h] = oc[h] + 1
                /\ pc[h] = "mac" => oc[h] < cfg[h].OUT_CH
                /\ pc[h] = "pad" =>
                       oc[h] >= cfg[h].OUT_CH /\ oc[h] < cfg[h].OUT_CH_PAD
                /\ pc[h] \in {"mac", "pad"}
         /\ (cfg[h].OUT_CH = cfg[h].OUT_CH_PAD /\ pc[h] = "pad") =>
                out_stream'[h] = out_stream[h] /\ pc'[h] \in {"pad", "done"}
         /\ pc[h] = "done" => HeadState(h)' = HeadState(h)
      ]_vars

\* a head without padding has finished after two computed outputs
C12_Witness ==
    \E h \in Heads :
        /\ pc[h] = "done"
        /\ cfg[h].OUT_CH = 2 /\ cfg[h].OUT_CH_PAD = 2 /\ cfg[h].IN_CH = 1
        /\ Len(out_stream[h]) = 2
        /\ out_stream[h][2] # 0

\* ------------------------------------------------------------------------
\* C13: in every execution of a head kernel all IN_CH reads of the feature
\* input come before the first read of the weight channel: no weight value
\* has been read while fewer than IN_CH feature values are loaded, and no
\* feature value is read once a weight value has been read.
\* ------------------------------------------------------------------------
C13_FeaturesBeforeWeights ==
    /\ [](\A h \in Heads :
            /\ nfeat[h] <= cfg[h].IN_CH
            /\ wlog[h] # <<>> => nfeat[h] = cfg[h].IN_CH)
    /\ [][\A h \in Heads :
            /\ nfeat'[h] # nfeat[h] => wlog[h] = <<>> /\ wlog'[h] = <<>>
            /\ wlog'[h] # wlog[h] => nfeat'[h] = cfg[h].IN_CH]_vars

\* the bias of the first row has been read after two feature reads
C13_Witness ==
    \E h \in Heads :
        /\ pc[h] = "mac"
        /\ cfg[h].IN_CH = 2
        /\ nfeat[h] = 2
        /\ Len(wlog[h]) = 1
        /\ feat_buf[h] = feat_win[h]
        /\ feat_buf[h][2] # 0

\* ------------------------------------------------------------------------
\* Starvation: the weight transfer ends short of the weight table
\* ------------------------------------------------------------------------
Starved(h) == h \in run /\ wtotal[h] < cfg[h].OUT_CH * (1 + cfg[h].IN_CH)

\* the kernel stands at a readincr(w_stream) and the stream is empty
SuspendedOnWeightRead(h) ==
    /\ \/ pc[h] = "outer" /\ oc[h] < cfg[h].OUT_CH
       \/ pc[h] = "mac" /\ ic[h] < cfg[h].IN_CH
    /\ w_stream[h] = <<>>
    /\ wsent[h] = wtotal[h]

\* ------------------------------------------------------------------------
\* C14: when the weight producer supplies n < OUT_CH * (1 + IN_CH) values
\* and stops, the kernel never reaches DONE and never leaves its normal
\* control states (it has no error exit); it ends up suspended on a weight
\* read forever, having written exactly floor(n / (1 + IN_CH)) computed
\* outputs and no padding value.
\* ------------------------------------------------------------------------
C14_StarvationHangs ==
    \A h \in Heads :
        /\ [](Starved(h) =>
                /\ pc[h] \in {"idle", "load", "outer", "mac"}
                /\ Len(out_stream[h]) <= wtotal[h] \div (1 + cfg[h].IN_CH))
        /\ Starved(h) ~>
               [](/\ SuspendedOnWeightRead(h)
                  /\ Len(out_stream[h]) = wtotal[h] \div (1 + cfg[h].IN_CH)
                  /\ Len(out_stream[h]) = oc[h]
                  /\ oc[h] < cfg[h].OUT_CH)

\* three of four weights arrived: one output written, the kernel waits in
\* the second row's MAC loop
C14_Witness ==
    \E h \in Heads :
        /\ Starved(h)
        /\ cfg[h].IN_CH = 1 /\ cfg[h].OUT_CH = 2 /\ cfg[h].OUT_CH_PAD = 3
        /\ wtotal[h] = 3
        /\ SuspendedOnWeightRead(h)
        /\ pc[h] = "mac"
        /\ Len(wlog[h]) = 3
        /\ Len(out_stream[h]) = 1

\* ------------------------------------------------------------------------
\* C15: with the feature transfer, the weight transfer, the kernel and the
\* output transfer running concurrently over blocking channels of bounded
\* capacity >= 1, every interleaving delivers the output buffer the kernel
\* computes from its window and weights run on its own; no channel holds
\* more values than its capacity, no reader takes a value from an empty
\* channel, and the values written to a channel are read once each, in write
\* order.
\* ------------------------------------------------------------------------
C15_BoundedChannelsPreserveResult ==
    /\ [](\A h \in run :
            /\ Len(w_stream[h]) <= wcap[h]
            /\ out_rd[h] <= Len(out_stream[h])
            /\ Len(out_stream[h]) - out_rd[h] <= ocap[h]
            /\ nfeat[h] <= fsent[h] /\ fsent[h] <= cfg[h].IN_CH
            /\ Len(wlog[h]) + Len(w_stream[h]) = wsent[h]
            /\ \A k \in 1..Len(out_stream[h]) :
                   out_stream[h][k] = AloneOutput(h, wlog[h], k)
            /\ (pc[h] = "done" /\ out_rd[h] = otake[h]) =>
                   /\ Len(wlog[h]) = wtotal[h]
                   /\ w_stream[h] = <<>>
                   /\ Len(out_stream[h]) = cfg[h].OUT_CH_PAD
                   /\ SubSeq(out_stream[h], 1, out_rd[h]) =
                          [k \in 1..otake[h] |-> AloneOutput(h, wlog[h], k)])
    /\ [][\A h \in run :
            /\ \/ w_stream'[h] = w_stream[h] /\ wlog'[h] = wlog[h]
               \/ /\ Len(w_stream[h]) < wcap[h]
                  /\ \E v \in vals : w_stream'[h] = Append(w_stream[h], v)
                  /\ wlog'[h] = wlog[h]
                  /\ wsent'[h] = wsent[h] + 1
               \/ /\ w_stream[h] # <<>>
                  /\ w_stream'[h] = Tail(w_stream[h])
                  /\ wlog'[h] = Append(wlog[h], Head(w_stream[h]))
            /\ out_rd'[h] # out_rd[h] =>
                   /\ out_rd[h] < Len(out_stream[h])
                   /\ out_rd'[h] = out_rd[h] + 1
                   /\ out_stream'[h] = out_stream[h]
            /\ out_stream'[h] # out_stream[h] =>
                   /\ Len(out_stream[h]) - out_rd[h] < ocap[h]
                   /\ SubSeq(out_stream'[h], 1, Len(out_stream[h])) =
                          out_stream[h]
            /\ nfeat'[h] # nfeat[h] =>
                   /\ nfeat[h] < fsent[h]
                   /\ nfeat'[h] = nfeat[h] + 1
                   /\ feat_buf'[h][nfeat'[h]] = feat_win[h][nfeat'[h]]
      ]_vars

\* capacity 1 everywhere: the saturating vector has gone through the pipeline
C15_Witness ==
    \E h \in run :
        /\ wcap[h] = 1 /\ ocap[h] = 1
        /\ pc[h] = "done"
        /\ otake[h] = 2 /\ out_rd[h] = 2
        /\ fsent[h] = 2
        /\ feat_win[h] = <<2, 2>>
        /\ wlog[h] = <<2, 30000, 30000>>
        /\ out_stream[h] = <<32767, 0>>

\* ------------------------------------------------------------------------
\* A head whose transfers carry what the kernel reads and writes, and the
\* state in which the kernel and all three transfers have ended
\* ------------------------------------------------------------------------
MatchedTransfers(h) ==
    /\ h \in run
    /\ wtotal[h] = cfg[h].OUT_CH * (1 + cfg[h].IN_CH)
    /\ otake[h] = cfg[h].OUT_CH_PAD

AllTerminated(h) ==
    /\ pc[h] = "done"
    /\ fsent[h] = cfg[h].IN_CH
    /\ wsent[h] = wtotal[h] /\ w_stream[h] = <<>>
    /\ out_rd[h] = otake[h]

\* ------------------------------------------------------------------------
\* C17: under weak fairness of every unit, when the feature producer
\* supplies IN_CH values, the weight producer OUT_CH * (1 + IN_CH) values and
\* the output consumer drains OUT_CH_PAD values, the kernel eventually
\* reaches DONE and the producers and the consumer eventually terminate, for
\* every channel capacity >= 1; until then some unit can always step.
\* ------------------------------------------------------------------------
C17_MatchedPipelineTerminates ==
    \A h \in Heads :
        /\ [](MatchedTransfers(h) => (AllTerminated(h) \/ ENABLED NextPipe))
        /\ MatchedTransfers(h) ~> AllTerminated(h)

\* both streams of capacity 1, two rows of two weights: everything has ended
C17_Witness ==
    \E h \in Heads :
        /\ MatchedTransfers(h) /\ AllTerminated(h)
        /\ wcap[h] = 1 /\ ocap[h] = 1
        /\ cfg[h].IN_CH = 1 /\ cfg[h].OUT_CH = 2
        /\ Len(wlog[h]) = 4
        /\ out_rd[h] = 2

\* ------------------------------------------------------------------------
\* C16: a head kernel keeps no state across invocations.  In an invocation
\* that follows another one, every entry of the static feature buffer has
\* been overwritten from the new window before the compute phase reads it,
\* and the output sequence is the one computed from this invocation's window
\* and weights alone, whatever the previous invocation left in the buffer.
\* ------------------------------------------------------------------------
C16_NoStateAcrossInvocations ==
    \A h \in Heads :
        ninv[h] >= 1 =>
            /\ pc[h] \in {"outer", "mac", "pad", "done"} =>
                   feat_buf[h] = feat_win[h]
            /\ pc[h] = "load" =>
                   /\ SubSeq(feat_buf[h], 1, i[h]) = SubSeq(feat_win[h], 1, i[h])
                   /\ wlog[h] = <<>> /\ out_stream[h] = <<>>
            /\ \A k \in 1..Len(out_stream[h]) :
                   out_stream[h][k] = AloneOutput(h, wlog[h], k)
            /\ pc[h] = "done" => Len(out_stream[h]) = cfg[h].OUT_CH_PAD

\* the second invocation has finished on a window that differs in every
\* entry from what the first one left in the buffer
C16_Witness ==
    \E h \in Heads :
        /\ ninv[h] = 2
        /\ pc[h] = "done"
        /\ stale[h] = <<1, 1>>
        /\ feat_win[h] = <<2, 2>>
        /\ wlog[h] = <<1, 2, 2>>
        /\ out_stream[h] = <<9>>

\* ------------------------------------------------------------------------
\* C18: during the padding phase of a head kernel the weight channel, the
\* feature input and the feature buffer do not change: a step that writes
\* the output at an index OUT_CH..OUT_CH_PAD-1 appends one zero to the output
\* channel and reads nothing.
\* ------------------------------------------------------------------------
C18_PaddingTouchesOnlyOutput ==
    [][\A h \in Heads :
         pc[h] = "pad" =>
            /\ w_stream'[h] = w_stream[h]
            /\ wlog'[h] = wlog[h]
            /\ wsent'[h] = wsent[h]
            /\ feat_win'[h] = feat_win[h]
            /\ nfeat'[h] = nfeat[h]
            /\ feat_buf'[h] = feat_buf[h]
            /\ out_stream'[h] # out_stream[h] =>
                   /\ out_stream'[h] = Append(out_stream[h], 0)
                   /\ Len(out_stream[h]) >= cfg[h].OUT_CH
                   /\ Len(out_stream[h]) < cfg[h].OUT_CH_PAD
      ]_vars

\* the padding zero has been written after a row of three weights
C18_Witness ==
    \E h \in Heads :
        /\ pc[h] = "pad"
        /\ cfg[h].IN_CH = 2 /\ cfg[h].OUT_CH = 1 /\ cfg[h].OUT_CH_PAD = 2
        /\ Len(out_stream[h]) = 2 /\ out_stream[h][2] = 0
        /\ Len(wlog[h]) = 3
        /\ feat_buf[h] = <<32767, -32768>>

\* ------------------------------------------------------------------------
\* C19: a zero-width head (IN_CH = 0) reads no feature value and exactly
\* OUT_CH values, the biases, from the weight channel, and its oc-th output
\* is saturate_q15(bias_oc arithmetically shifted right by SHIFT), that is
\* the floor of bias_oc / 2^SHIFT clamped to 16 bits.
\* ------------------------------------------------------------------------
C19_ZeroWidthHead ==
    \A h \in run :
        cfg[h].IN_CH = 0 =>
            /\ nfeat[h] = 0
            /\ feat_buf[h] = <<>>
            /\ Len(wlog[h]) <= cfg[h].OUT_CH
            /\ Len(out_stream[h]) <= Len(wlog[h]) \/ pc[h] \in {"pad", "done"}
            /\ pc[h] \in {"pad", "done"} => Len(wlog[h]) = cfg[h].OUT_CH
            /\ \A k \in 1..Len(out_stream[h]) :
                   k <= cfg[h].OUT_CH =>
                       out_stream[h][k] =
                           Clamp16(wlog[h][k] \div (2^(cfg[h].SHIFT)))

\* three biases through the heads' shift: -1 >> 15 = -1, the others 0
C19_Witness ==
    \E h \in run :
        /\ cfg[h] = HeadCfg(0, 3, 3, 15)
        /\ pc[h] = "done"
        /\ nfeat[h] = 0
        /\ wlog[h] = <<-1, 32767, 1>>
        /\ out_stream[h] = <<-1, 0, 0>>

\* ------------------------------------------------------------------------
\* C20: a memory-to-stream mover never writes its buffer: during and after a
\* feat_mover / weight_mover call every word of mem, inside and outside
\* [start_addr, start_addr + num_words), has the value it had before the
\* call, and after the return of an in-bounds call the stream is num_words
\* longer, with what it held before still at its front in the same order.
\* ------------------------------------------------------------------------
C20_MoverLeavesBufferUnchanged ==
    (ncall = 1 /\ mkind \in M2S) =>
        /\ mem = mem0
        /\ Len(stream) >= Len(stream0)
        /\ SubSeq(stream, 1, Len(stream0)) = stream0
        /\ (mpc = "returned" /\ InRange) =>
               Len(stream) = Len(stream0) + num_words

\* weight_mover has moved the whole buffer behind a word already in the stream
C20_Witness ==
    /\ mkind = "weight_mover" /\ ncall = 1 /\ mpc = "returned"
    /\ start_addr = 0 /\ num_words = 3
    /\ mem0 = <<3, 1, 2>> /\ mem = <<3, 1, 2>>
    /\ stream0 = <<1>>
    /\ Len(stream) = 4 /\ stream[1] = 1

\* ------------------------------------------------------------------------
\* C21: the host and the kernel agree on the input protocol.  For each of
\* the three heads the weight transfer carries OUT_CH * ROW_STRIDE int16
\* values, which is the OUT_CH * (1 + IN_CH) the kernel reads, and the
\* feature transfer carries IN_CH values: a started transfer is never longer
\* or shorter than what the kernel reads, so a kernel that is done has left
\* no value unread, and a running kernel is never held up for a value the
\* host did not send.
\* ------------------------------------------------------------------------
C21_HostSendsWhatKernelReads ==
    \A h \in Heads :
        /\ host_w_elems(h) = NamedCfg(h).OUT_CH * (1 + NamedCfg(h).IN_CH)
        /\ feat_elems(h) = NamedCfg(h).IN_CH
        /\ \A r \in Roles :
              /\ gmio_in[<<h, r>>] \in {0, KernelReads(h, r) * SizeofInt16}
              /\ kdone[h] =>
                     gmio_in[<<h, r>>] - KernelReads(h, r) * SizeofInt16 = 0
        /\ (graph_state = "running" /\ ~kdone[h]) => ENABLED KernelRun(h)

\* the run is complete: the pose3d weight transfer was 195 * 1153 values
C21_Witness ==
    /\ hpc = "exit" /\ hrc = 0
    /\ \A h \in Heads : kdone[h]
    /\ gmio_in[<<"pose3d", "w">>] = 449670
    /\ gmio_in[<<"world", "w">>] = 269802
    /\ gmio_in[<<"flag", "w">>] = 2306
    /\ gmio_in[<<"flag", "feat">>] = 2304


\* the buffer indexes output_mover's call stores to: start_addr + i on
\* unsigned int for every i < num_words
TargetRange == {U32Add(start_addr, j) : j \in 0..(num_words - 1)}

\* C22: output_mover changes only the target range.  In every state of a
\* call, each word of the buffer at an index the call does not target equals
\* its value at entry (for an in-bounds call: every index outside
\* [start_addr, start_addr + num_words)), and the stream holds the words of
\* the entry stream from the (i+1)-th on, unread and in their order; after
\* the return these are the words beyond the first num_words.
C22_OutputMoverWritesOnlyTarget ==
    mkind = "output_mover" =>
        /\ \A k \in 0..(Len(dst) - 1) :
              k \notin TargetRange => dst[k + 1] = dst0[k + 1]
        /\ InRange =>
              \A k \in 0..(Len(dst) - 1) :
                  (k < start_addr \/ k >= start_addr + num_words)
                      => dst[k + 1] = dst0[k + 1]
        /\ mpc \in {"WRITE_LOOP", "returned"} =>
              stream = SubSeq(stream0, mi + 1, Len(stream0))
        /\ mpc = "returned" =>
              /\ Len(stream0) >= num_words
              /\ stream = SubSeq(stream0, num_words + 1, Len(stream0))

\* output_mover has moved one word of a three-word stream to the middle of
\* the buffer and returned: the neighbours are as before, two words remain
C22_Witness ==
    /\ mkind = "output_mover"
    /\ mpc = "returned"
    /\ ncall = 1
    /\ start_addr = 1
    /\ num_words = 1
    /\ stream0 = <<1, 2, 3>>
    /\ dst = <<0, 1, 0>>
    /\ stream = <<2, 3>>


\* the progress counters of head h: F feature values read, W weight values
\* read, O output values written
CountF(h) == nfeat[h]

CountW(h) == Len(wlog[h])

CountO(h) == Len(out_stream[h])

\* the bounds and the ordering of the counters that do not involve the row
\* in progress
CountersInBounds(h) ==
    /\ CountF(h) <= cfg[h].IN_CH
    /\ CountW(h) <= cfg[h].OUT_CH * (1 + cfg[h].IN_CH)
    /\ CountO(h) <= cfg[h].OUT_CH_PAD
    /\ CountW(h) > 0 => CountF(h) = cfg[h].IN_CH
    /\ CountO(h) > cfg[h].OUT_CH
          => CountW(h) = cfg[h].OUT_CH * (1 + cfg[h].IN_CH)

\* C23 as stated: progress-counter invariant of a head kernel.  In every
\* reachable state F <= IN_CH, W <= OUT_CH * (1 + IN_CH), O <= OUT_CH_PAD;
\* W > 0 implies F = IN_CH; while O <= OUT_CH,
\* O * (1 + IN_CH) <= W < (O + 1) * (1 + IN_CH) or W = OUT_CH * (1 + IN_CH);
\* and O > OUT_CH implies W = OUT_CH * (1 + IN_CH).
C23_ProgressCountersAsStated ==
    \A h \in Heads :
        /\ CountersInBounds(h)
        /\ CountO(h) <= cfg[h].OUT_CH =>
              \/ /\ CountO(h) * (1 + cfg[h].IN_CH) <= CountW(h)
                 /\ CountW(h) < (CountO(h) + 1) * (1 + cfg[h].IN_CH)
              \/ CountW(h) = cfg[h].OUT_CH * (1 + cfg[h].IN_CH)

\* C23 amended: the same invariant with the upper bound of the row in
\* progress included, O * (1 + IN_CH) <= W <= (O + 1) * (1 + IN_CH): the
\* k-th output is written only after the whole k-th weight row has been
\* read, so there is a state with k rows read and k - 1 outputs written, and
\* no value of row k+1 is read before the k-th output is written.
C23_ProgressCounters ==
    \A h \in Heads :
        /\ CountersInBounds(h)
        /\ CountO(h) <= cfg[h].OUT_CH =>
              \/ /\ CountO(h) * (1 + cfg[h].IN_CH) <= CountW(h)
                 /\ CountW(h) <= (CountO(h) + 1) * (1 + cfg[h].IN_CH)
              \/ CountW(h) = cfg[h].OUT_CH * (1 + cfg[h].IN_CH)

\* a head of two outputs and one input has read its whole first weight row
\* (bias and one weight) and has not yet written the first output
C23_Witness ==
    \E h \in Heads :
        /\ cfg[h].OUT_CH = 2
        /\ cfg[h].IN_CH = 1
        /\ pc[h] = "mac"
        /\ CountF(h) = 1
        /\ CountW(h) = 2
        /\ CountO(h) = 0


\* the width of a channel word, ap_uint<128>
WordBits == 128

\* the int16 values one channel word carries
WordElems == WordBits \div (8 * SizeofInt16)

\* the values written to head h's output channel so far, drained or not
Written(h) == Len(out_bo[h]) + Len(out_chan[h])

\* C24: each of the three named head configurations has the values
\* pose (1152, 195, 200, 15), world (1152, 117, 120, 15), flag (1152, 1, 8, 15),
\* satisfies OUT_CH_PAD >= OUT_CH >= 0, IN_CH >= 0 and SHIFT >= 0, and has
\* as OUT_CH_PAD the smallest multiple of 8 that is >= OUT_CH, so that what
\* a completed kernel has written is a whole number of 128-bit words.
C24_NamedConfigurations ==
    /\ NamedCfg("pose3d") = HeadCfg(1152, 195, 200, 15)
    /\ NamedCfg("world") = HeadCfg(1152, 117, 120, 15)
    /\ NamedCfg("flag") = HeadCfg(1152, 1, 8, 15)
    /\ \A h \in Heads :
          LET c == NamedCfg(h)
          IN /\ c.OUT_CH_PAD >= c.OUT_CH
             /\ c.OUT_CH >= 0
             /\ c.IN_CH >= 0
             /\ c.SHIFT >= 0
             /\ c.OUT_CH_PAD % WordElems = 0
             /\ c.OUT_CH_PAD - c.OUT_CH < WordElems
             /\ Written(h) = IF kdone[h] THEN c.OUT_CH_PAD ELSE 0
             /\ (Written(h) * SizeofInt16) % (WordElems * SizeofInt16) = 0

\* every kernel has completed and the run has ended: 195 + 5, 117 + 3 and
\* 1 + 7 values were written, 25, 15 and 1 channel words
C24_Witness ==
    /\ hpc = "exit"
    /\ \A h \in Heads : kdone[h]
    /\ Written("pose3d") = 200
    /\ Written("world") = 120
    /\ Written("flag") = 8
    /\ Len(out_chan["flag"]) = 7

===========================================================================
